---- MODULE Spec2Model ----
(***************************************************************************)
(* Model of src/src/recommender.py: FuzzySimilarity (fuzzy Jaccard, cosine *)
(* and Dice measures and their hybrid) and FuzzyRecommender (candidate     *)
(* scoring and the MMR diversity re-ranking).                              *)
(*                                                                         *)
(* Numbers.  Membership strengths are held in tenths (10 stands for 1.0,   *)
(* 1 for 0.1).  A similarity measure is held in fixed point, in units of   *)
(* 1/Scale; a weight and the diversity factor are held in tenths, so a     *)
(* hybrid score is in units of 1/(10*Scale).                               *)
(***************************************************************************)
EXTENDS Integers, Sequences, FiniteSets

(* ------------------------------ bounds -------------------------------- *)
\* Largest catalog (number of rows of fuzzy_movies_df).
MaxCatalog == 3
\* Largest top_n a caller passes.
MaxTopN == 3
MaxRatings == 2
\* Fixed-point resolution of a similarity measure.
Scale == 100

(* ------------------------- program constants -------------------------- *)
\* Config.GENRES, shortened to the sentinel and four scored genres, in the
\* canonical order of the list.
GENRES == <<"unknown", "Action", "Comedy", "Drama", "Horror">>
\* top_n of the inner call of generate_diverse_recommendations.
POOL_TOP_N == 50
\* Default n of _get_top_movie_genres.
TOP_GENRES_N == 3

GenreNames == {GENRES[i] : i \in 1..Len(GENRES)}
\* The loops of the measures without their test for the sentinel.
ScoredGenres_WithSentinel == GENRES
ScoredGenres == SelectSeq(GENRES, LAMBDA g : g # "unknown")

Min(a, b) == IF a < b THEN a ELSE b
Max(a, b) == IF a > b THEN a ELSE b

\* A lookup that takes a missing genre for full strength.
Get_MissingIsFull(profile, genre) == IF genre \in DOMAIN profile THEN profile[genre] ELSE 10

\* dict.get(genre, 0.0)
Get(profile, genre) == IF genre \in DOMAIN profile THEN profile[genre] ELSE 0

RECURSIVE SumOver(_, _, _)
\* Accumulation of term[genre] over the genres of a list, as the for loops of
\* the similarity measures do it.
SumOver(genres, term, i) ==
    IF i > Len(genres) THEN 0 ELSE term[genres[i]] + SumOver(genres, term, i + 1)

RECURSIVE IsqrtIn(_, _, _)
IsqrtIn(n, lo, hi) ==
    IF lo >= hi THEN lo
    ELSE LET mid == (lo + hi + 1) \div 2
         IN  IF mid * mid <= n THEN IsqrtIn(n, mid, hi) ELSE IsqrtIn(n, lo, mid - 1)
\* np.sqrt in fixed point: the norm of a profile whose sum of squares is sq
\* (in hundredths), in units of 1/(10*Scale).
Sqrt(sq) == IsqrtIn(sq * Scale * Scale, 0, 4 * 10 * Scale)

(* --------------------------- FuzzySimilarity -------------------------- *)
\* The Jaccard measure with max in place of min in the intersection.
fuzzy_jaccard_MaxIntersection(user_profile, movie_profile) ==
    LET intersection == SumOver(ScoredGenres,
            [g \in GenreNames |-> Max(Get(user_profile, g), Get(movie_profile, g))], 1)
        union == SumOver(ScoredGenres,
            [g \in GenreNames |-> Max(Get(user_profile, g), Get(movie_profile, g))], 1)
    IN  IF union > 0 THEN (intersection * Scale) \div union ELSE 0

\* The Jaccard measure with the sum of both strengths as the union.
fuzzy_jaccard_SumUnion(user_profile, movie_profile) ==
    LET intersection == SumOver(ScoredGenres,
            [g \in GenreNames |-> Min(Get(user_profile, g), Get(movie_profile, g))], 1)
        union == SumOver(ScoredGenres,
            [g \in GenreNames |-> Get(user_profile, g) + Get(movie_profile, g)], 1)
    IN  IF union > 0 THEN (intersection * Scale) \div union ELSE 0

fuzzy_jaccard(user_profile, movie_profile) ==
    LET intersection == SumOver(ScoredGenres,
            [g \in GenreNames |-> Min(Get(user_profile, g), Get(movie_profile, g))], 1)
        union == SumOver(ScoredGenres,
            [g \in GenreNames |-> Max(Get(user_profile, g), Get(movie_profile, g))], 1)
    IN  IF union > 0 THEN (intersection * Scale) \div union ELSE 0

\* The cosine with the user's norm in place of the movie's.
fuzzy_cosine_UserNormTwice(user_profile, movie_profile) ==
    LET dot_product == SumOver(ScoredGenres,
            [g \in GenreNames |-> Get(user_profile, g) * Get(movie_profile, g)], 1)
        user_norm == Sqrt(SumOver(ScoredGenres,
            [g \in GenreNames |-> Get(user_profile, g) * Get(user_profile, g)], 1))
        movie_norm == Sqrt(SumOver(ScoredGenres,
            [g \in GenreNames |-> Get(movie_profile, g) * Get(movie_profile, g)], 1))
    IN  IF user_norm > 0 /\ movie_norm > 0
        THEN (dot_product * Scale * Scale * Scale) \div (user_norm * user_norm)
        ELSE 0

fuzzy_cosine(user_profile, movie_profile) ==
    LET dot_product == SumOver(ScoredGenres,
            [g \in GenreNames |-> Get(user_profile, g) * Get(movie_profile, g)], 1)
        user_norm == Sqrt(SumOver(ScoredGenres,
            [g \in GenreNames |-> Get(user_profile, g) * Get(user_profile, g)], 1))
        movie_norm == Sqrt(SumOver(ScoredGenres,
            [g \in GenreNames |-> Get(movie_profile, g) * Get(movie_profile, g)], 1))
    IN  IF user_norm > 0 /\ movie_norm > 0
        THEN (dot_product * Scale * Scale * Scale) \div (user_norm * movie_norm)
        ELSE 0

\* The Dice measure that takes two empty profiles for identical ones.
fuzzy_dice_EmptyIsFull(user_profile, movie_profile) ==
    LET intersection == SumOver(ScoredGenres,
            [g \in GenreNames |-> Min(Get(user_profile, g), Get(movie_profile, g))], 1)
        sum_profiles == SumOver(ScoredGenres,
            [g \in GenreNames |-> Get(user_profile, g) + Get(movie_profile, g)], 1)
    IN  IF sum_profiles > 0 THEN (2 * intersection * Scale) \div sum_profiles ELSE Scale

fuzzy_dice(user_profile, movie_profile) ==
    LET intersection == SumOver(ScoredGenres,
            [g \in GenreNames |-> Min(Get(user_profile, g), Get(movie_profile, g))], 1)
        sum_profiles == SumOver(ScoredGenres,
            [g \in GenreNames |-> Get(user_profile, g) + Get(movie_profile, g)], 1)
    IN  IF sum_profiles > 0 THEN (2 * intersection * Scale) \div sum_profiles ELSE 0

\* weights=None
None == [none |-> TRUE]
\* Defaults that weigh the three measures alike.
DEFAULT_WEIGHTS_Even == [jaccard |-> 3, cosine |-> 3, dice |-> 3]
DEFAULT_WEIGHTS == [jaccard |-> 4, cosine |-> 4, dice |-> 2]

\* The outcome of a call: a returned value or a raised exception.
Returned(v) == [status |-> "returned", value |-> v]
Raised(e) == [status |-> "raised", exc |-> e]

\* hybrid_similarity that combines with the default weights whatever weights
\* it is given.
hybrid_similarity_WeightsIgnored(user_profile, movie_profile, weights) ==
    LET w == DEFAULT_WEIGHTS
        jaccard == fuzzy_jaccard(user_profile, movie_profile)
        cosine == fuzzy_cosine(user_profile, movie_profile)
        dice == fuzzy_dice(user_profile, movie_profile)
    IN  IF weights = None \/ {"jaccard", "cosine", "dice"} \subseteq DOMAIN weights
        THEN Returned(w["jaccard"] * jaccard + w["cosine"] * cosine + w["dice"] * dice)
        ELSE Raised("KeyError")

\* hybrid_similarity: the three keys are looked up in weights; a missing one
\* raises KeyError, any other key of the mapping is never read.
hybrid_similarity(user_profile, movie_profile, weights) ==
    LET w == IF weights = None THEN DEFAULT_WEIGHTS ELSE weights
        jaccard == fuzzy_jaccard(user_profile, movie_profile)
        cosine == fuzzy_cosine(user_profile, movie_profile)
        dice == fuzzy_dice(user_profile, movie_profile)
    IN  IF {"jaccard", "cosine", "dice"} \subseteq DOMAIN w
        THEN Returned(w["jaccard"] * jaccard + w["cosine"] * cosine + w["dice"] * dice)
        ELSE Raised("KeyError")

(* --------------------------- FuzzyRecommender ------------------------- *)
\* seq[:n + 1] in place of seq[:n]
Slice_OneTooMany(seq, n) ==
    IF n + 1 >= 0 THEN SubSeq(seq, 1, Min(n + 1, Len(seq)))
    ELSE SubSeq(seq, 1, Max(0, Len(seq) + n + 1))

\* Python's seq[:n], negative n included (all but the last -n items).
Slice(seq, n) ==
    IF n >= 0 THEN SubSeq(seq, 1, Min(n, Len(seq)))
    ELSE SubSeq(seq, 1, Max(0, Len(seq) + n))

\* A descending sort that is not stable: item i goes before the items of
\* equal key.
InsertDesc_TiesReversed(sorted, i, keys) ==
    LET pos == Cardinality({k \in 1..Len(sorted) : keys[sorted[k]] > keys[i]})
    IN  SubSeq(sorted, 1, pos) \o <<i>> \o SubSeq(sorted, pos + 1, Len(sorted))

\* Where item i goes into the order built so far (item numbers, descending by
\* key): after every item whose key is not smaller.
InsertDesc(sorted, i, keys) ==
    LET pos == Cardinality({k \in 1..Len(sorted) : keys[sorted[k]] >= keys[i]})
    IN  SubSeq(sorted, 1, pos) \o <<i>> \o SubSeq(sorted, pos + 1, Len(sorted))

RECURSIVE SortFrom(_, _, _)
SortFrom(keys, i, sorted) ==
    IF i > Len(keys) THEN sorted
    ELSE SortFrom(keys, i + 1, InsertDesc(sorted, i, keys))

\* list.sort(key=..., reverse=True) / sorted(..., reverse=True), keys[i] being
\* the key of seq[i]: descending by key, items of equal key keeping their
\* original relative order.
SortDesc(seq, keys) ==
    LET order == SortFrom(keys, 1, <<>>)
    IN  [k \in 1..Len(seq) |-> seq[order[k]]]

\* The movie_profile dict built from a catalog row: the scored genres that are
\* columns of the row.
MovieProfile(movie) ==
    [g \in {h \in GenreNames : h # "unknown" /\ h \in DOMAIN movie} |-> movie[g]]

\* movie_profile.items(): the dict was filled in the order of GENRES.
Items(movie_profile) ==
    LET keys == SelectSeq(GENRES, LAMBDA g : g \in DOMAIN movie_profile)
    IN  [i \in 1..Len(keys) |-> <<keys[i], movie_profile[keys[i]]>>]

\* The filter strength >= 0.1 in place of strength > 0.1.
_get_top_movie_genres_AtLeast(movie_profile, n) ==
    LET items == Items(movie_profile)
        sorted_genres == SortDesc(items, [i \in 1..Len(items) |-> items[i][2]])
    IN  SelectSeq(Slice(sorted_genres, n), LAMBDA x : x[2] >= 1)

\* strength > 0.1 (strengths are in tenths)
_get_top_movie_genres(movie_profile, n) ==
    LET items == Items(movie_profile)
        sorted_genres == SortDesc(items, [i \in 1..Len(items) |-> items[i][2]])
    IN  SelectSeq(Slice(sorted_genres, n), LAMBDA x : x[2] > 1)

\* The filter without its negation: the rated movies are kept.
Unrated_NotNegated(fuzzy_movies_df, user_rated_movies) ==
    SelectSeq(fuzzy_movies_df, LAMBDA movie : movie.movie_id \in user_rated_movies)

\* fuzzy_movies_df[~fuzzy_movies_df['movie_id'].isin(user_rated_movies)]
Unrated(fuzzy_movies_df, user_rated_movies) ==
    SelectSeq(fuzzy_movies_df, LAMBDA movie : movie.movie_id \notin user_rated_movies)

\* One entry of the recommendations list.
Recommendation(user_preferences, movie) ==
    [movie_id |-> movie.movie_id,
     title |-> movie.title,
     similarity_score |->
         hybrid_similarity(user_preferences, MovieProfile(movie), None).value,
     genres |-> _get_top_movie_genres(MovieProfile(movie), TOP_GENRES_N)]

RECURSIVE ScoreAll_SkipsZero(_, _, _)
\* The loop that appends an entry only for a movie of positive score.
ScoreAll_SkipsZero(user_preferences, unrated_movies, i) ==
    IF i > Len(unrated_movies) THEN <<>>
    ELSE (IF Recommendation(user_preferences, unrated_movies[i]).similarity_score > 0
          THEN <<Recommendation(user_preferences, unrated_movies[i])>>
          ELSE <<>>)
             \o ScoreAll_SkipsZero(user_preferences, unrated_movies, i + 1)

RECURSIVE ScoreAll(_, _, _)
\* The for loop over unrated_movies.iterrows(): one entry appended per row.
ScoreAll(user_preferences, unrated_movies, i) ==
    IF i > Len(unrated_movies) THEN <<>>
    ELSE <<Recommendation(user_preferences, unrated_movies[i])>>
             \o ScoreAll(user_preferences, unrated_movies, i + 1)

generate_recommendations(user_profile, fuzzy_movies_df, user_rated_movies, top_n) ==
    LET user_preferences == user_profile.profile
        unrated_movies == Unrated(fuzzy_movies_df, user_rated_movies)
        recommendations == ScoreAll(user_preferences, unrated_movies, 1)
        sorted == SortDesc(recommendations,
                      [i \in 1..Len(recommendations) |-> recommendations[i].similarity_score])
    IN  Slice(sorted, top_n)

\* set([g for g, s in item['genres']])
GenreLabels(item) == {item.genres[k][1] : k \in 1..Len(item.genres)}

\* The division of the inner loop raises when both label sets are empty.
DivisionFails(selected, candidate) ==
    Max(Cardinality(GenreLabels(selected)), Cardinality(GenreLabels(candidate))) = 0

\* overlap / max(len(selected_genres), len(candidate_genres)), in 1/Scale
Similarity(selected, candidate) ==
    LET selected_genres == GenreLabels(selected)
        candidate_genres == GenreLabels(candidate)
        overlap == Cardinality(selected_genres \cap candidate_genres)
    IN  (overlap * Scale) \div Max(Cardinality(selected_genres), Cardinality(candidate_genres))

RECURSIVE MaxSimilarity(_, _, _, _)
\* The inner loop over the selected items, from max_similarity = 0.
MaxSimilarity(candidate, diverse_recommendations, k, max_similarity) ==
    IF k > Len(diverse_recommendations) THEN max_similarity
    ELSE MaxSimilarity(candidate, diverse_recommendations, k + 1,
             Max(max_similarity, Similarity(diverse_recommendations[k], candidate)))

\* The MMR score with the penalty added to the relevance.
MmrScore_PenaltyAdded(candidate, diverse_recommendations, diversity_factor) ==
    candidate.similarity_score
        + diversity_factor * MaxSimilarity(candidate, diverse_recommendations, 1, 0)

\* relevance - diversity_factor * max_similarity, in units of 1/(10*Scale)
MmrScore(candidate, diverse_recommendations, diversity_factor) ==
    candidate.similarity_score
        - diversity_factor * MaxSimilarity(candidate, diverse_recommendations, 1, 0)

RECURSIVE BestIndex_LastOfTies(_, _, _, _, _, _)
\* The scan with mmr_score >= best_score: the last of the best candidates wins.
BestIndex_LastOfTies(remaining, diverse, diversity_factor, i, best_score, best_index) ==
    IF i >= Len(remaining) THEN best_index
    ELSE LET mmr_score == MmrScore(remaining[i + 1], diverse, diversity_factor)
         IN  IF mmr_score >= best_score
             THEN BestIndex_LastOfTies(remaining, diverse, diversity_factor, i + 1,
                                       mmr_score, i)
             ELSE BestIndex_LastOfTies(remaining, diverse, diversity_factor, i + 1,
                                       best_score, best_index)

RECURSIVE BestIndex(_, _, _, _, _, _)
\* The scan of the remaining candidates: i is the 0-based index of enumerate,
\* the result is best_index after the last candidate (-1: none was taken).
BestIndex(remaining, diverse, diversity_factor, i, best_score, best_index) ==
    IF i >= Len(remaining) THEN best_index
    ELSE LET mmr_score == MmrScore(remaining[i + 1], diverse, diversity_factor)
         IN  IF mmr_score > best_score
             THEN BestIndex(remaining, diverse, diversity_factor, i + 1, mmr_score, i)
             ELSE BestIndex(remaining, diverse, diversity_factor, i + 1, best_score, best_index)

\* Reading the item without removing it: the list as it was.
Pop_KeepsItem(seq, index) == seq

\* list.pop(index), index 0-based: the list without that item
Pop(seq, index) == SubSeq(seq, 1, index) \o SubSeq(seq, index + 2, Len(seq))

(* ------------------------------ inputs -------------------------------- *)
\* Fuzzy genre vectors of catalog rows (the output of the fuzzifier): one with
\* no strength above 0.1, two over different genres, one over all four.
MovieVectors ==
    { [title |-> "Blank",  unknown |-> 10, Action |-> 0, Comedy |-> 1, Drama |-> 0, Horror |-> 0],
      [title |-> "Heist",  unknown |-> 0, Action |-> 9, Comedy |-> 5, Drama |-> 0, Horror |-> 0],
      [title |-> "Elegy",  unknown |-> 0, Action |-> 0, Comedy |-> 1, Drama |-> 8, Horror |-> 0],
      [title |-> "Medley", unknown |-> 0, Action |-> 7, Comedy |-> 7, Drama |-> 7, Horror |-> 3] }

\* User profiles: one without a key for some genres, one that likes Horror
\* only (and carries a sentinel entry), one with no preference at all.
UserProfiles ==
    { [user_id |-> 1, profile |-> [Action |-> 8, Comedy |-> 6]],
      [user_id |-> 2, profile |-> [unknown |-> 5, Action |-> 0, Comedy |-> 0,
                                   Drama |-> 0, Horror |-> 10]],
      [user_id |-> 3, profile |-> [Action |-> 0, Comedy |-> 0, Drama |-> 0, Horror |-> 0]] }

\* A catalog row: the vector's columns and a movie_id.  Identifiers are unique
\* and do not follow the row order (rows 1..n carry 2, 3, .., n, 1).
Row(vector, id) ==
    [f \in DOMAIN vector \cup {"movie_id"} |-> IF f = "movie_id" THEN id ELSE vector[f]]

Catalogs ==
    UNION { { [i \in 1..n |-> Row(vs[i], (i % n) + 1)] : vs \in [1..n -> MovieVectors] }
            : n \in 0..MaxCatalog }

\* weights arguments of hybrid_similarity: absent, the three keys, the three
\* keys and an unknown one, a key missing.
WeightsArgs ==
    { None,
      [jaccard |-> 10, cosine |-> 0, dice |-> 0],
      [jaccard |-> 4, cosine |-> 4, dice |-> 2, euclid |-> 5],
      [jaccard |-> 5, cosine |-> 5] }

\* user_rated_movies arguments: any of the identifiers 1 and 2 (the last and
\* the first row of a catalog; every row of a catalog of at most two).
ExclusionSets == SUBSET {1, 2}

TopNs == (-1)..MaxTopN
\* diversity_factor in tenths: 0.0, the default 0.3, 1.0
DiversityFactors == {0, 3, 10}

\* Profiles for the calls of the similarity measures on one pair: a strength
\* per scored genre out of 0.0, 0.3 and 1.0.
SimLevels == {0, 3, 10}
ScoredGenreSet == GenreNames \ {"unknown"}
SimVectors == [ScoredGenreSet -> SimLevels]

\* The user side of a pair: a dict that has a key only for the genres of
\* positive strength (the others are missing, not 0.0).
SimUserProfiles ==
    { [user_id |-> 1,
       profile |-> [g \in {h \in ScoredGenreSet : v[h] > 0} |-> v[g]]] : v \in SimVectors }

\* The movie side of a pair: a fuzzified row with every genre column.
SimRow(v) ==
    [f \in GenreNames \cup {"title", "movie_id"} |->
        IF f = "title" THEN "Probe"
        ELSE IF f = "movie_id" THEN 1
        ELSE IF f = "unknown" THEN 0
        ELSE v[f]]

\* Catalogs of one such row.
SimCatalogs == { <<SimRow(v)>> : v \in SimVectors }

(* ------------------------------- state -------------------------------- *)
VARIABLES
    user_profile,                \* the caller's user profile
    fuzzy_movies_df,             \* the caller's catalog
    user_rated_movies,           \* the caller's exclusion set
    call,                        \* the call in progress or last completed
    pc,                          \* "idle", "mmr" (inside the while loop), "done"
    recommendations,             \* locals of generate_diverse_recommendations
    diverse_recommendations,
    remaining_recommendations,
    result                       \* outcome of the last completed call

vars == <<user_profile, fuzzy_movies_df, user_rated_movies, call, pc,
          recommendations, diverse_recommendations, remaining_recommendations, result>>

inputs == <<user_profile, fuzzy_movies_df, user_rated_movies>>

NoResult == [status |-> "none"]
Call(op, top_n, diversity_factor, weights, movie) ==
    [op |-> op, top_n |-> top_n, diversity_factor |-> diversity_factor,
     weights |-> weights, movie |-> movie]

Init ==
    /\ user_profile \in UserProfiles
    /\ fuzzy_movies_df \in Catalogs
    /\ user_rated_movies \in ExclusionSets
    /\ call = Call("none", 0, 0, None, 0)
    /\ pc = "idle"
    /\ recommendations = <<>>
    /\ diverse_recommendations = <<>>
    /\ remaining_recommendations = <<>>
    /\ result = NoResult

(* ------------------------------ actions ------------------------------- *)
\* A call that adds the movies it returns to the caller's exclusion set.
GenerateRecommendations_MarksReturned ==
    /\ pc = "idle"
    /\ \E top_n \in TopNs :
        LET returned == generate_recommendations(
                            user_profile, fuzzy_movies_df, user_rated_movies, top_n)
        IN  /\ call' = Call("generate_recommendations", top_n, 0, None, 0)
            /\ result' = Returned(returned)
            /\ user_rated_movies' = user_rated_movies
                   \cup {returned[k].movie_id : k \in 1..Len(returned)}
    /\ recommendations' = <<>>
    /\ diverse_recommendations' = <<>>
    /\ remaining_recommendations' = <<>>
    /\ pc' = "done"
    /\ UNCHANGED <<user_profile, fuzzy_movies_df>>

\* A call of generate_recommendations(user_profile, fuzzy_movies_df,
\* user_rated_movies, top_n).
GenerateRecommendations ==
    /\ pc = "idle"
    /\ \E top_n \in TopNs :
        /\ call' = Call("generate_recommendations", top_n, 0, None, 0)
        /\ result' = Returned(generate_recommendations(
                         user_profile, fuzzy_movies_df, user_rated_movies, top_n))
    /\ recommendations' = <<>>
    /\ diverse_recommendations' = <<>>
    /\ remaining_recommendations' = <<>>
    /\ pc' = "done"
    /\ UNCHANGED inputs

\* A call of hybrid_similarity(user profile, movie profile, weights) on a
\* catalog row.
HybridSimilarity ==
    /\ pc = "idle"
    /\ \E m \in 1..Len(fuzzy_movies_df), weights \in WeightsArgs :
        /\ call' = Call("hybrid_similarity", 0, 0, weights, m)
        /\ result' = hybrid_similarity(user_profile.profile,
                                       MovieProfile(fuzzy_movies_df[m]), weights)
    /\ recommendations' = <<>>
    /\ diverse_recommendations' = <<>>
    /\ remaining_recommendations' = <<>>
    /\ pc' = "done"
    /\ UNCHANGED inputs

\* A call of fuzzy_jaccard(user profile, movie profile) on a catalog row.
FuzzyJaccard ==
    /\ pc = "idle"
    /\ \E m \in 1..Len(fuzzy_movies_df) :
        /\ call' = Call("fuzzy_jaccard", 0, 0, None, m)
        /\ result' = Returned(fuzzy_jaccard(user_profile.profile,
                                            MovieProfile(fuzzy_movies_df[m])))
    /\ recommendations' = <<>>
    /\ diverse_recommendations' = <<>>
    /\ remaining_recommendations' = <<>>
    /\ pc' = "done"
    /\ UNCHANGED inputs

\* A call of fuzzy_cosine(user profile, movie profile) on a catalog row.
FuzzyCosine ==
    /\ pc = "idle"
    /\ \E m \in 1..Len(fuzzy_movies_df) :
        /\ call' = Call("fuzzy_cosine", 0, 0, None, m)
        /\ result' = Returned(fuzzy_cosine(user_profile.profile,
                                           MovieProfile(fuzzy_movies_df[m])))
    /\ recommendations' = <<>>
    /\ diverse_recommendations' = <<>>
    /\ remaining_recommendations' = <<>>
    /\ pc' = "done"
    /\ UNCHANGED inputs

\* A call of fuzzy_dice(user profile, movie profile) on a catalog row.
FuzzyDice ==
    /\ pc = "idle"
    /\ \E m \in 1..Len(fuzzy_movies_df) :
        /\ call' = Call("fuzzy_dice", 0, 0, None, m)
        /\ result' = Returned(fuzzy_dice(user_profile.profile,
                                         MovieProfile(fuzzy_movies_df[m])))
    /\ recommendations' = <<>>
    /\ diverse_recommendations' = <<>>
    /\ remaining_recommendations' = <<>>
    /\ pc' = "done"
    /\ UNCHANGED inputs

\* generate_diverse_recommendations up to the while loop: the inner call, the
\* early return on an empty list, the seeding with the most relevant item.
DiverseBegin ==
    /\ pc = "idle"
    /\ LET recs == generate_recommendations(
                       user_profile, fuzzy_movies_df, user_rated_movies, POOL_TOP_N)
       IN  /\ recommendations' = recs
           /\ IF recs = <<>>
              THEN /\ result' = Returned(<<>>)
                   /\ pc' = "done"
                   /\ diverse_recommendations' = <<>>
                   /\ remaining_recommendations' = <<>>
              ELSE /\ result' = NoResult
                   /\ pc' = "mmr"
                   /\ diverse_recommendations' = <<recs[1]>>
                   /\ remaining_recommendations' = Pop(recs, 0)
    /\ \E top_n \in TopNs, diversity_factor \in DiversityFactors :
        call' = Call("generate_diverse_recommendations", top_n, diversity_factor, None, 0)
    /\ UNCHANGED inputs

\* The loop condition with <= in place of <.
LoopCondition_AtMost ==
    Len(diverse_recommendations) <= call.top_n /\ remaining_recommendations # <<>>

\* while len(diverse_recommendations) < top_n and remaining_recommendations
LoopCondition ==
    Len(diverse_recommendations) < call.top_n /\ remaining_recommendations # <<>>

\* Some division of the scan raises ZeroDivisionError.
ScanRaises ==
    \E i \in 1..Len(remaining_recommendations), k \in 1..Len(diverse_recommendations) :
        DivisionFails(diverse_recommendations[k], remaining_recommendations[i])

\* best_score = -1, best_index = -1, then the scan
ScanBestIndex ==
    BestIndex(remaining_recommendations, diverse_recommendations,
              call.diversity_factor, 0, -(10 * Scale), -1)

\* One iteration of the while loop whose scan takes a candidate.
MMRSelect ==
    /\ pc = "mmr" /\ LoopCondition /\ ~ScanRaises
    /\ ScanBestIndex >= 0
    /\ diverse_recommendations' =
           Append(diverse_recommendations, remaining_recommendations[ScanBestIndex + 1])
    /\ remaining_recommendations' = Pop(remaining_recommendations, ScanBestIndex)
    /\ UNCHANGED <<inputs, call, pc, recommendations, result>>

\* One iteration whose scan takes no candidate: break, then the return.
MMRBreak ==
    /\ pc = "mmr" /\ LoopCondition /\ ~ScanRaises
    /\ ScanBestIndex < 0
    /\ result' = Returned(Slice(diverse_recommendations, call.top_n))
    /\ pc' = "done"
    /\ UNCHANGED <<inputs, call, recommendations, diverse_recommendations,
                   remaining_recommendations>>

\* One iteration whose scan divides by zero: the exception leaves the call.
MMRRaise ==
    /\ pc = "mmr" /\ LoopCondition /\ ScanRaises
    /\ result' = Raised("ZeroDivisionError")
    /\ pc' = "done"
    /\ UNCHANGED <<inputs, call, recommendations, diverse_recommendations,
                   remaining_recommendations>>

\* The loop condition is false: return diverse_recommendations[:top_n].
MMRReturn ==
    /\ pc = "mmr" /\ ~LoopCondition
    /\ result' = Returned(Slice(diverse_recommendations, call.top_n))
    /\ pc' = "done"
    /\ UNCHANGED <<inputs, call, recommendations, diverse_recommendations,
                   remaining_recommendations>>

\* The caller takes the outcome; the recommender, which holds nothing of the
\* call, is ready for the next one.
Discard ==
    /\ pc = "done"
    /\ pc' = "idle"
    /\ call' = Call("none", 0, 0, None, 0)
    /\ result' = NoResult
    /\ recommendations' = <<>>
    /\ diverse_recommendations' = <<>>
    /\ remaining_recommendations' = <<>>
    /\ UNCHANGED inputs

Next ==
    \/ GenerateRecommendations
    \/ HybridSimilarity
    \/ FuzzyJaccard
    \/ FuzzyCosine
    \/ FuzzyDice
    \/ DiverseBegin
    \/ MMRSelect
    \/ MMRBreak
    \/ MMRRaise
    \/ MMRReturn
    \/ Discard

Spec == Init /\ [][Next]_vars

\* The similarity measures on one pair of profiles: a user profile and a
\* catalog of one row, drawn from every pair of strength vectors.
SimInit ==
    /\ user_profile \in SimUserProfiles
    /\ fuzzy_movies_df \in SimCatalogs
    /\ user_rated_movies = {}
    /\ call = Call("none", 0, 0, None, 0)
    /\ pc = "idle"
    /\ recommendations = <<>>
    /\ diverse_recommendations = <<>>
    /\ remaining_recommendations = <<>>
    /\ result = NoResult

SimNext ==
    \/ FuzzyJaccard
    \/ FuzzyCosine
    \/ FuzzyDice
    \/ HybridSimilarity
    \/ GenerateRecommendations
    \/ Discard

SimSpec == SimInit /\ [][SimNext]_vars

(* ----------------------------- fuzzifier ------------------------------ *)
\* The relationship table, restricted to the genres of GENRES: for each genre
\* the related genres and their strengths, in tenths. Action and Horror are
\* related only to genres outside GENRES.
genre_relationships ==
    [genre \in ScoredGenreSet |->
        CASE genre = "Comedy" -> [related_genre \in {"Drama"} |-> 5]
          [] genre = "Drama" -> [related_genre \in {"Comedy"} |-> 5]
          [] OTHER -> [related_genre \in {} |-> 0]]

RelatedPairs ==
    {<<genre, related_genre>> \in ScoredGenreSet \X ScoredGenreSet :
        related_genre \in DOMAIN genre_relationships[genre]}

\* Values np.random.uniform(0.7, 1.0) and np.random.uniform(0.2, 0.6) can
\* return, in units of 1/Scale.
PrimaryDraws == {(7 * Scale) \div 10, (85 * Scale) \div 100, Scale}
RelatedDraws == {(2 * Scale) \div 10, (4 * Scale) \div 10, (6 * Scale) \div 10}

\* fuzzy_vector[genre] = value
Put(fuzzy_vector, genre, value) ==
    [g \in DOMAIN fuzzy_vector \cup {genre} |->
        IF g = genre THEN value ELSE fuzzy_vector[g]]

\* The inner loop: a related genre is given a membership only when it is not
\* yet a key of fuzzy_vector.
AddRelated(fuzzy_vector, genre, related) ==
    [g \in DOMAIN fuzzy_vector \cup DOMAIN genre_relationships[genre] |->
        IF g \in DOMAIN fuzzy_vector THEN fuzzy_vector[g]
        ELSE (related[<<genre, g>>] * genre_relationships[genre][g]) \div 10]

\* The loop over GENRES from position i on; primary and related are the values
\* the random draws return.
RECURSIVE FuzzifyFrom(_, _, _, _, _)
FuzzifyFrom(i, fuzzy_vector, genre_vector, primary, related) ==
    IF i > Len(GENRES) THEN fuzzy_vector
    ELSE LET genre == GENRES[i] IN
         IF genre = "unknown"
         THEN FuzzifyFrom(i + 1, fuzzy_vector, genre_vector, primary, related)
         ELSE IF genre_vector[genre]
         THEN FuzzifyFrom(i + 1,
                          AddRelated(Put(fuzzy_vector, genre, primary[genre]),
                                     genre, related),
                          genre_vector, primary, related)
         ELSE FuzzifyFrom(i + 1, Put(fuzzy_vector, genre, 0),
                          genre_vector, primary, related)

\* The final loop: min(1.0, max(0.0, value)) for every key.
Clamp(fuzzy_vector) ==
    [g \in DOMAIN fuzzy_vector |-> Min(Scale, Max(0, fuzzy_vector[g]))]

binary_to_fuzzy(genre_vector, primary, related) ==
    Clamp(FuzzifyFrom(1, [g \in {} |-> 0], genre_vector, primary, related))

GenreVectors == [GenreNames -> BOOLEAN]

BinaryToFuzzy ==
    /\ pc = "idle"
    /\ \E genre_vector \in GenreVectors,
          primary \in [ScoredGenreSet -> PrimaryDraws],
          related \in [RelatedPairs -> RelatedDraws] :
           /\ call' = [op |-> "binary_to_fuzzy", genre_vector |-> genre_vector]
           /\ result' = Returned(binary_to_fuzzy(genre_vector, primary, related))
    /\ pc' = "done"
    /\ UNCHANGED <<inputs, recommendations, diverse_recommendations,
                   remaining_recommendations>>

\* The fuzzifier on one binary genre vector at a time.
FuzzInit ==
    /\ user_profile = [g \in {} |-> 0]
    /\ fuzzy_movies_df = <<>>
    /\ user_rated_movies = {}
    /\ call = Call("none", 0, 0, None, 0)
    /\ pc = "idle"
    /\ recommendations = <<>>
    /\ diverse_recommendations = <<>>
    /\ remaining_recommendations = <<>>
    /\ result = NoResult

FuzzNext ==
    \/ BinaryToFuzzy
    \/ Discard

FuzzSpec == FuzzInit /\ [][FuzzNext]_vars

(* --------------------------- user profiler ---------------------------- *)
\* ratings_df[ratings_df['user_id'] == user_id]
UserRatings(user_id, ratings_df) ==
    SelectSeq(ratings_df, LAMBDA r : r.user_id = user_id)

\* One row of the merge: the columns of the rating and those of the movie.
Joined(rating_row, movie) ==
    [f \in DOMAIN movie \cup {"user_id", "rating"} |->
        IF f \in {"user_id", "rating"} THEN rating_row[f] ELSE movie[f]]

RECURSIVE Merge(_, _, _)
\* user_ratings.merge(fuzzy_movies_df, on='movie_id'): an inner join, a row
\* for every rating and every movie of its movie_id, in the order of the
\* ratings.
Merge(user_ratings, movies_df, i) ==
    IF i > Len(user_ratings) THEN <<>>
    ELSE LET matches == SelectSeq(movies_df,
                            LAMBDA m : m.movie_id = user_ratings[i].movie_id)
         IN  [k \in 1..Len(matches) |-> Joined(user_ratings[i], matches[k])]
                 \o Merge(user_ratings, movies_df, i + 1)

\* A weight that is the rating itself.
Weight_Unshifted(rating) == rating
\* weight = (rating - 1) / 4.0, in quarters.
Weight(rating) == rating - 1

RECURSIVE WeightedSum(_, _, _)
\* user_profile[genre] after the loop over the rows: the sum of
\* row[genre] * weight, in units of 1/40.
WeightedSum(user_data, genre, i) ==
    IF i > Len(user_data) THEN 0
    ELSE (IF genre \in DOMAIN user_data[i]
          THEN user_data[i][genre] * Weight(user_data[i].rating) ELSE 0)
             + WeightedSum(user_data, genre, i + 1)

RECURSIVE TotalWeight(_, _)
\* total_weight after the loop, in quarters.
TotalWeight(user_data, i) ==
    IF i > Len(user_data) THEN 0
    ELSE Weight(user_data[i].rating) + TotalWeight(user_data, i + 1)

RECURSIVE RatingSum(_, _)
RatingSum(user_ratings, i) ==
    IF i > Len(user_ratings) THEN 0
    ELSE user_ratings[i].rating + RatingSum(user_ratings, i + 1)

\* The profile entries are in units of 1/(10 * Scale), average_rating in
\* units of 1/Scale.
create_user_profile(user_id, ratings_df, movies_df) ==
    LET user_ratings == UserRatings(user_id, ratings_df)
        user_data == Merge(user_ratings, movies_df, 1)
        total_weight == TotalWeight(user_data, 1)
    IN  IF Len(user_ratings) = 0 THEN None
        ELSE [user_id |-> user_id,
              total_ratings |-> Len(user_ratings),
              average_rating |-> (RatingSum(user_ratings, 1) * Scale) \div Len(user_ratings),
              profile |-> [genre \in ScoredGenreSet |->
                  IF total_weight > 0
                  THEN (WeightedSum(user_data, genre, 1) * Scale) \div total_weight
                  ELSE (WeightedSum(user_data, genre, 1) * Scale) \div 4]]

\* Ratings tables: up to MaxRatings rows of two users on three movies, the
\* third of which is in no catalog.
UserIds == {1, 2}
RatedMovieIds == {1, 2, 3}
Ratings == {1, 3, 5}
RatingRows == [user_id : UserIds, movie_id : RatedMovieIds, rating : Ratings]
RatingsTables == UNION {[1..n -> RatingRows] : n \in 0..MaxRatings}
ProfilerCatalogs == {c \in Catalogs : Len(c) = 2}

CreateUserProfile ==
    /\ pc = "idle"
    /\ \E user_id \in UserIds, ratings_df \in RatingsTables :
           /\ call' = [op |-> "create_user_profile", user_id |-> user_id,
                       ratings_df |-> ratings_df]
           /\ result' = Returned(create_user_profile(user_id, ratings_df,
                                                     fuzzy_movies_df))
    /\ pc' = "done"
    /\ UNCHANGED <<inputs, recommendations, diverse_recommendations,
                   remaining_recommendations>>

\* The profiler on one ratings table and one catalog at a time.
ProfilerInit ==
    /\ user_profile = [g \in {} |-> 0]
    /\ fuzzy_movies_df \in ProfilerCatalogs
    /\ user_rated_movies = {}
    /\ call = Call("none", 0, 0, None, 0)
    /\ pc = "idle"
    /\ recommendations = <<>>
    /\ diverse_recommendations = <<>>
    /\ remaining_recommendations = <<>>
    /\ result = NoResult

ProfilerNext ==
    \/ CreateUserProfile
    \/ Discard

ProfilerSpec == ProfilerInit /\ [][ProfilerNext]_vars

(* ------------------------------ claims -------------------------------- *)
Done(op) == pc = "done" /\ call.op = op
DoneRecommending ==
    Done("generate_recommendations") \/ Done("generate_diverse_recommendations")

\* Number of catalog rows whose movie_id is not in the exclusion set.
NumUnrated ==
    Cardinality({i \in 1..Len(fuzzy_movies_df) :
                     fuzzy_movies_df[i].movie_id \notin user_rated_movies})

\* Row number of a movie in the catalog.
CatalogIndex(movie_id) ==
    CHOOSE i \in 1..Len(fuzzy_movies_df) : fuzzy_movies_df[i].movie_id = movie_id

\* A selected item and a remaining candidate both have an empty genres list.
EmptyGenresPair ==
    \E k \in 1..Len(diverse_recommendations), i \in 1..Len(remaining_recommendations) :
        /\ diverse_recommendations[k].genres = <<>>
        /\ remaining_recommendations[i].genres = <<>>

\* C1: generate_diverse_recommendations(top_n = N), N >= 0, returns exactly
\* min(N, P) items, P the size of the ranked pool handed to the MMR loop.
C1_DiverseOutputSize ==
    (Done("generate_diverse_recommendations") /\ call.top_n >= 0)
        => /\ result.status = "returned"
           /\ Len(result.value) = Min(call.top_n, Len(recommendations))

\* C2: the MMR loop stops short of top_n items only when the remaining pool is
\* empty: an iteration entered with a non-empty pool and fewer than top_n
\* selected items (and that does not fail) moves one candidate from the pool to
\* the output.
C2_NoAbstention ==
    [][(pc = "mmr" /\ LoopCondition /\ result'.status # "raised")
          => /\ Len(diverse_recommendations') = Len(diverse_recommendations) + 1
             /\ Len(remaining_recommendations') = Len(remaining_recommendations) - 1
             /\ \E i \in 1..Len(remaining_recommendations) :
                    diverse_recommendations' =
                        Append(diverse_recommendations, remaining_recommendations[i])]_vars

\* C3: the genre-overlap penalty of a candidate and a selected item that both
\* have an empty genres list is 0, and the re-ranking completes with a result:
\* a call that met such a pair has returned a list.
C3_EmptyGenresPairCompletes ==
    (Done("generate_diverse_recommendations") /\ EmptyGenresPair)
        => result.status = "returned"

\* C4: the pool the MMR loop selects from has exactly
\* min(5 * top_n, number of non-excluded catalog movies) entries.
C4_PoolIsFiveTimesTopN ==
    (call.op = "generate_diverse_recommendations" /\ call.top_n >= 0)
        => Len(recommendations) = Min(5 * call.top_n, NumUnrated)

\* C5: a negative top_n is rejected as invalid input: the call raises and
\* returns no list.
C5_NegativeTopNRejected ==
    (DoneRecommending /\ call.top_n < 0) => result.status = "raised"

\* C6: hybrid_similarity rejects a weights mapping that has a key other than
\* jaccard, cosine and dice: it raises instead of returning a score.
C6_UnknownWeightKeyRejected ==
    (/\ Done("hybrid_similarity")
     /\ call.weights # None
     /\ ~(DOMAIN call.weights \subseteq {"jaccard", "cosine", "dice"}))
        => result.status = "raised"

\* C7: no item returned by generate_recommendations or by
\* generate_diverse_recommendations, and no item the MMR loop holds, has a
\* movie_id of the exclusion set.
C7_NoExcludedMovie ==
    /\ (DoneRecommending /\ result.status = "returned")
           => \A k \in 1..Len(result.value) :
                  result.value[k].movie_id \notin user_rated_movies
    /\ \A k \in 1..Len(diverse_recommendations) :
           diverse_recommendations[k].movie_id \notin user_rated_movies
    /\ \A k \in 1..Len(remaining_recommendations) :
           remaining_recommendations[k].movie_id \notin user_rated_movies

\* A diverse call returned movies while a catalog movie was excluded.
C7_Witness ==
    /\ Done("generate_diverse_recommendations")
    /\ result.status = "returned"
    /\ Len(result.value) >= 2
    /\ \E i \in 1..Len(fuzzy_movies_df) : fuzzy_movies_df[i].movie_id \in user_rated_movies

\* C8: the list generate_recommendations returns is ordered by similarity_score
\* descending, and two returned movies of equal score are in catalog order.
C8_SortedDescendingStable ==
    Done("generate_recommendations")
        => \A i, j \in 1..Len(result.value) :
               i < j =>
                   /\ result.value[i].similarity_score >= result.value[j].similarity_score
                   /\ result.value[i].similarity_score = result.value[j].similarity_score
                          => CatalogIndex(result.value[i].movie_id)
                                 < CatalogIndex(result.value[j].movie_id)

\* A returned list that holds two movies of equal score below a better one.
C8_Witness ==
    /\ Done("generate_recommendations")
    /\ Len(result.value) = 3
    /\ result.value[1].similarity_score > result.value[2].similarity_score
    /\ result.value[2].similarity_score = result.value[3].similarity_score

\* C9: for top_n >= 0, generate_recommendations returns exactly min(top_n, U)
\* items, U the number of catalog movies not in the exclusion set (so none for
\* top_n = 0 and none when every movie is excluded).
C9_OutputSize ==
    (Done("generate_recommendations") /\ call.top_n >= 0)
        => /\ result.status = "returned"
           /\ Len(result.value) = Min(call.top_n, NumUnrated)

\* A call whose top_n truncates the ranked list.
C9_Witness ==
    /\ Done("generate_recommendations")
    /\ call.top_n >= 1
    /\ call.top_n < NumUnrated
    /\ Len(result.value) = call.top_n

\* C11: for top_n >= 1 and at least one non-excluded movie, a call of
\* generate_diverse_recommendations yields a list whose first item is the first
\* item generate_recommendations returns for the same inputs, for every
\* diversity_factor.
C11_FirstItemsAgree ==
    (/\ Done("generate_diverse_recommendations")
     /\ call.top_n >= 1
     /\ NumUnrated >= 1)
        => /\ result.status = "returned"
           /\ Len(result.value) >= 1
           /\ result.value[1] =
                  generate_recommendations(user_profile, fuzzy_movies_df,
                                           user_rated_movies, call.top_n)[1]

\* The two profiles of the measure call in progress or last completed.
CalledUser == user_profile.profile
CalledMovie == MovieProfile(fuzzy_movies_df[call.movie])

\* C12: fuzzy_jaccard, fuzzy_cosine, fuzzy_dice and hybrid_similarity (with
\* the weights of the call) are symmetric: the value of a call equals the value
\* of the measure on the two profiles swapped.
C12_Symmetric ==
    /\ Done("fuzzy_jaccard")
           => result.value = fuzzy_jaccard(CalledMovie, CalledUser)
    /\ Done("fuzzy_cosine")
           => result.value = fuzzy_cosine(CalledMovie, CalledUser)
    /\ Done("fuzzy_dice")
           => result.value = fuzzy_dice(CalledMovie, CalledUser)
    /\ Done("hybrid_similarity")
           => result = hybrid_similarity(CalledMovie, CalledUser, call.weights)

\* A cosine call on two profiles of different norms that share a genre.
C12_Witness ==
    /\ Done("fuzzy_cosine")
    /\ result.value > 0
    /\ \E g \in ScoredGenreSet : Get(CalledUser, g) # Get(CalledMovie, g)
    /\ SumOver(ScoredGenres, [g \in GenreNames |-> Get(CalledUser, g)], 1)
           # SumOver(ScoredGenres, [g \in GenreNames |-> Get(CalledMovie, g)], 1)

\* No scored genre has a positive strength in both profiles of the call.
DisjointSupports ==
    \A g \in ScoredGenreSet : ~(Get(CalledUser, g) > 0 /\ Get(CalledMovie, g) > 0)

\* C14: fuzzy_jaccard of two profiles that have no genre on which both are
\* positive is exactly 0.
C14_ZeroOnDisjointSupports ==
    (Done("fuzzy_jaccard") /\ DisjointSupports) => result = Returned(0)

\* A Jaccard call on two profiles, each positive somewhere, of disjoint
\* supports.
C14_Witness ==
    /\ Done("fuzzy_jaccard")
    /\ DisjointSupports
    /\ \E g \in ScoredGenreSet : Get(CalledUser, g) > 0
    /\ \E g \in ScoredGenreSet : Get(CalledMovie, g) > 0
    /\ result = Returned(0)

\* The two profiles of the call have the same strength on every scored genre.
SameProfile ==
    \A g \in ScoredGenreSet : Get(CalledUser, g) = Get(CalledMovie, g)

\* C15: fuzzy_jaccard of a profile and itself is exactly 1.0 when the profile
\* is positive on at least one scored genre.
C15_JaccardIdentity ==
    (/\ Done("fuzzy_jaccard")
     /\ SameProfile
     /\ \E g \in ScoredGenreSet : Get(CalledUser, g) > 0)
        => result = Returned(Scale)

\* A Jaccard call on a profile and itself, of two different positive strengths.
C15_Witness ==
    /\ Done("fuzzy_jaccard")
    /\ SameProfile
    /\ \E g, h \in ScoredGenreSet :
           Get(CalledUser, g) > 0 /\ Get(CalledUser, h) > Get(CalledUser, g)
    /\ result = Returned(Scale)

\* The weights {jaccard: 1, cosine: 0, dice: 0}, in tenths.
JaccardOnly == [jaccard |-> 10, cosine |-> 0, dice |-> 0]

\* C16: with weights {jaccard: 1, cosine: 0, dice: 0}, hybrid_similarity
\* returns exactly the value of fuzzy_jaccard on the same profiles (a hybrid
\* score is in units ten times finer than a measure).
C16_JaccardOnlyHybrid ==
    (Done("hybrid_similarity") /\ call.weights = JaccardOnly)
        => result = Returned(10 * fuzzy_jaccard(CalledUser, CalledMovie))

\* Such a call on profiles whose three measures are positive and not all
\* equal.
C16_Witness ==
    /\ Done("hybrid_similarity")
    /\ call.weights = JaccardOnly
    /\ result.status = "returned"
    /\ result.value > 0
    /\ fuzzy_cosine(CalledUser, CalledMovie) # fuzzy_jaccard(CalledUser, CalledMovie)
    /\ fuzzy_dice(CalledUser, CalledMovie) # fuzzy_jaccard(CalledUser, CalledMovie)

\* The candidate shares no genre label with any item of the selected list.
DisjointFromAll(candidate, selected) ==
    \A k \in 1..Len(selected) :
        GenreLabels(candidate) \cap GenreLabels(selected[k]) = {}

\* The candidate has the genre labels of some item of the selected list
\* (overlap / max(len, len) is 1.0).
OverlapsFully(candidate, selected) ==
    \E k \in 1..Len(selected) :
        /\ GenreLabels(candidate) # {}
        /\ GenreLabels(candidate) = GenreLabels(selected[k])

\* Position of an item in the pool generate_recommendations returned.
PoolIndex(item) ==
    CHOOSE p \in 1..Len(recommendations) : recommendations[p].movie_id = item.movie_id

AllZero(profile) == \A g \in ScoredGenreSet : Get(profile, g) = 0

\* C18: no call of fuzzy_jaccard, fuzzy_dice or fuzzy_cosine fails on a zero
\* denominator: every call returns a value, which is 0 for jaccard and dice
\* when both profiles are all-zero on the scored genres and 0 for cosine when
\* either profile is.
C18_ZeroDenominator ==
    /\ (Done("fuzzy_jaccard") \/ Done("fuzzy_dice") \/ Done("fuzzy_cosine"))
           => result.status = "returned"
    /\ (Done("fuzzy_jaccard") /\ AllZero(CalledUser) /\ AllZero(CalledMovie))
           => result = Returned(0)
    /\ (Done("fuzzy_dice") /\ AllZero(CalledUser) /\ AllZero(CalledMovie))
           => result = Returned(0)
    /\ (Done("fuzzy_cosine") /\ (AllZero(CalledUser) \/ AllZero(CalledMovie)))
           => result = Returned(0)

\* A Dice call on an empty user profile and a row of zeros.
C18_Witness ==
    /\ Done("fuzzy_dice")
    /\ AllZero(CalledUser)
    /\ AllZero(CalledMovie)
    /\ result = Returned(0)

\* Strength of a genre in a profile, a genre the profile has no entry for
\* counting as 0.0.
Strength(profile, g) == IF g \in DOMAIN profile THEN profile[g] ELSE 0

RECURSIVE SumOfMin(_, _, _)
\* Sum over the genres of a set of the smaller of the two strengths.
SumOfMin(genres, a, b) ==
    IF genres = {} THEN 0
    ELSE LET g == CHOOSE h \in genres : TRUE
         IN  (IF Strength(a, g) <= Strength(b, g) THEN Strength(a, g) ELSE Strength(b, g))
                 + SumOfMin(genres \ {g}, a, b)

RECURSIVE SumOfMax(_, _, _)
\* Sum over the genres of a set of the larger of the two strengths.
SumOfMax(genres, a, b) ==
    IF genres = {} THEN 0
    ELSE LET g == CHOOSE h \in genres : TRUE
         IN  (IF Strength(a, g) >= Strength(b, g) THEN Strength(a, g) ELSE Strength(b, g))
                 + SumOfMax(genres \ {g}, a, b)

\* C19: when the sum over the scored genres of max(A_i, B_i) is positive,
\* fuzzy_jaccard(A, B) is the sum of min(A_i, B_i) divided by that sum (to the
\* resolution 1/Scale of a measure), a genre missing from a profile counting
\* as strength 0.
C19_JaccardFormula ==
    LET num == SumOfMin(ScoredGenreSet, CalledUser, CalledMovie)
        den == SumOfMax(ScoredGenreSet, CalledUser, CalledMovie)
    IN  (Done("fuzzy_jaccard") /\ den > 0)
            => /\ result.status = "returned"
               /\ result.value * den <= Scale * num
               /\ Scale * num < (result.value + 1) * den

\* A Jaccard call where the user profile has no entry for a genre of the movie
\* and the two share another genre with different strengths.
C19_Witness ==
    /\ Done("fuzzy_jaccard")
    /\ \E g \in ScoredGenreSet : g \notin DOMAIN CalledUser /\ CalledMovie[g] > 0
    /\ \E g \in ScoredGenreSet \cap DOMAIN CalledUser :
           CalledMovie[g] > 0 /\ CalledMovie[g] # CalledUser[g]
    /\ result.value > 0
    /\ result.value < Scale

\* w_j * jaccard + w_c * cosine + w_d * dice of a user profile and a catalog
\* row, the weights in tenths.
Combination(w_j, w_c, w_d, row) ==
    LET movie_profile == MovieProfile(fuzzy_movies_df[row])
    IN  w_j * fuzzy_jaccard(user_profile.profile, movie_profile)
            + w_c * fuzzy_cosine(user_profile.profile, movie_profile)
            + w_d * fuzzy_dice(user_profile.profile, movie_profile)

\* C20: a call of hybrid_similarity that returns gives the weighted sum
\* w_j * jaccard + w_c * cosine + w_d * dice of the three measures, with the
\* weights 0.4, 0.4 and 0.2 when none are given, and every item that
\* generate_recommendations returns carries the score of these default weights.
C20_WeightedCombination ==
    /\ (Done("hybrid_similarity") /\ result.status = "returned")
           => result.value =
                  IF call.weights = None
                  THEN Combination(4, 4, 2, call.movie)
                  ELSE Combination(call.weights.jaccard, call.weights.cosine,
                                   call.weights.dice, call.movie)
    /\ Done("generate_recommendations")
           => \A k \in 1..Len(result.value) :
                  result.value[k].similarity_score
                      = Combination(4, 4, 2, CatalogIndex(result.value[k].movie_id))

\* generate_recommendations returned a movie whose three measures are
\* positive and pairwise different.
C20_Witness ==
    /\ Done("generate_recommendations")
    /\ \E k \in 1..Len(result.value) :
           LET movie_profile ==
                   MovieProfile(fuzzy_movies_df[CatalogIndex(result.value[k].movie_id)])
               jaccard == fuzzy_jaccard(user_profile.profile, movie_profile)
               cosine == fuzzy_cosine(user_profile.profile, movie_profile)
               dice == fuzzy_dice(user_profile.profile, movie_profile)
           IN  /\ jaccard > 0
               /\ jaccard # cosine
               /\ cosine # dice
               /\ jaccard # dice
               /\ result.value[k].similarity_score > 0

\* Position of a genre in the canonical genre list.
GenreIndex(g) == CHOOSE i \in 1..Len(GENRES) : GENRES[i] = g

\* Number of genres of a profile that go before g: the stronger ones, and of
\* the equally strong ones those earlier in the canonical list.
GenreRank(profile, g) ==
    Cardinality({h \in DOMAIN profile :
                    \/ profile[h] > profile[g]
                    \/ profile[h] = profile[g] /\ GenreIndex(h) < GenreIndex(g)})

\* The genres field of a scored candidate is what the claim C21 describes.
GenresAsRanked(item) ==
    LET profile == MovieProfile(fuzzy_movies_df[CatalogIndex(item.movie_id)])
        kept == {g \in DOMAIN profile : GenreRank(profile, g) < 3 /\ profile[g] > 1}
    IN  /\ Len(item.genres) = Cardinality(kept)
        /\ Len(item.genres) <= 3
        /\ \A j \in 1..Len(item.genres) :
               /\ item.genres[j][1] \in kept
               /\ item.genres[j][1] # "unknown"
               /\ item.genres[j][2] = profile[item.genres[j][1]]
               /\ Cardinality({h \in kept :
                       GenreRank(profile, h) < GenreRank(profile, item.genres[j][1])}) = j - 1
               /\ j > 1 => item.genres[j - 1][2] >= item.genres[j][2]

\* C21: the genres field of every scored candidate (of a returned list and of
\* the pool of the MMR loop) is the movie's top-3 scored genres by descending
\* strength, equal strengths in canonical order, those of strength > 0.1 only:
\* at most 3 entries, never the sentinel, non-increasing strength.
C21_TopGenres ==
    /\ Done("generate_recommendations")
           => \A k \in 1..Len(result.value) : GenresAsRanked(result.value[k])
    /\ \A k \in 1..Len(recommendations) : GenresAsRanked(recommendations[k])

\* A returned list with a movie of four genres above 0.1, the strongest three
\* tied, and a movie that has a genre of strength exactly 0.1.
C21_Witness ==
    /\ Done("generate_recommendations")
    /\ \E k \in 1..Len(result.value) :
           LET profile == MovieProfile(
                              fuzzy_movies_df[CatalogIndex(result.value[k].movie_id)])
           IN  /\ Cardinality({g \in DOMAIN profile : profile[g] > 1}) = 4
               /\ Len(result.value[k].genres) = 3
               /\ result.value[k].genres[1][2] = result.value[k].genres[2][2]
    /\ \E k \in 1..Len(result.value) :
           LET profile == MovieProfile(
                              fuzzy_movies_df[CatalogIndex(result.value[k].movie_id)])
           IN  /\ \E g \in DOMAIN profile : profile[g] = 1
               /\ Len(result.value[k].genres) = 1

\* Largest, over the selected items, of the genre-label overlap with the
\* candidate divided by the larger of the two label counts (in 1/Scale).
MaxOverlap(candidate, selected) ==
    LET ratios == {(Cardinality(GenreLabels(candidate) \cap GenreLabels(selected[k])) * Scale)
                       \div Max(Cardinality(GenreLabels(candidate)),
                                Cardinality(GenreLabels(selected[k]))) :
                   k \in 1..Len(selected)}
    IN  CHOOSE m \in ratios \cup {0} : \A r \in ratios : m >= r

\* similarity_score - diversity_factor * penalty, in units of 1/(10*Scale)
MmrOf(candidate, selected, diversity_factor) ==
    candidate.similarity_score - diversity_factor * MaxOverlap(candidate, selected)

\* C22: an MMR step that selects a candidate takes one of the highest
\* mmr_score among the remaining candidates, and the first of them in the
\* order of the remaining pool.
C22_SelectsFirstBest ==
    [][(pc = "mmr" /\ Len(diverse_recommendations') = Len(diverse_recommendations) + 1)
          => \E i \in 1..Len(remaining_recommendations) :
                 /\ diverse_recommendations' =
                        Append(diverse_recommendations, remaining_recommendations[i])
                 /\ \A j \in 1..Len(remaining_recommendations) :
                        LET best == MmrOf(remaining_recommendations[i],
                                          diverse_recommendations, call.diversity_factor)
                            other == MmrOf(remaining_recommendations[j],
                                           diverse_recommendations, call.diversity_factor)
                        IN  /\ other <= best
                            /\ j < i => other < best]_vars

\* The loop has just taken, with a positive diversity_factor, a candidate with
\* genre labels and a positive score while a candidate of a higher similarity
\* score, and of a lower mmr_score, stays in the pool.
C22_Witness ==
    /\ pc = "mmr"
    /\ call.diversity_factor > 0
    /\ Len(diverse_recommendations) >= 2
    /\ LET n == Len(diverse_recommendations)
           taken == diverse_recommendations[n]
           before == SubSeq(diverse_recommendations, 1, n - 1)
       IN  /\ GenreLabels(taken) # {}
           /\ taken.similarity_score > 0
           /\ \E j \in 1..Len(remaining_recommendations) :
                  /\ GenreLabels(remaining_recommendations[j]) # {}
                  /\ remaining_recommendations[j].similarity_score > taken.similarity_score
                  /\ MmrOf(remaining_recommendations[j], before, call.diversity_factor)
                         < MmrOf(taken, before, call.diversity_factor)

\* Index of the first candidate of the highest mmr_score, 0 when no
\* mmr_score is above -1.
FirstBest(selected, remaining, diversity_factor) ==
    LET above == {i \in 1..Len(remaining) :
                     /\ MmrOf(remaining[i], selected, diversity_factor) > -(10 * Scale)
                     /\ \A j \in 1..Len(remaining) :
                            MmrOf(remaining[j], selected, diversity_factor)
                                <= MmrOf(remaining[i], selected, diversity_factor)}
    IN  IF above = {} THEN 0 ELSE CHOOSE i \in above : \A j \in above : i <= j

RECURSIVE Reranked(_, _, _, _)
\* The outcome of the MMR loop as a function of the lists it starts from.
Reranked(selected, remaining, top_n, diversity_factor) ==
    IF ~(Len(selected) < top_n /\ remaining # <<>>)
    THEN Returned(Slice(selected, top_n))
    ELSE IF \E i \in 1..Len(remaining), k \in 1..Len(selected) :
                GenreLabels(remaining[i]) = {} /\ GenreLabels(selected[k]) = {}
    THEN Raised("ZeroDivisionError")
    ELSE LET i == FirstBest(selected, remaining, diversity_factor)
         IN  IF i = 0 THEN Returned(Slice(selected, top_n))
             ELSE Reranked(Append(selected, remaining[i]),
                           SubSeq(remaining, 1, i - 1) \o SubSeq(remaining, i + 1, Len(remaining)),
                           top_n, diversity_factor)

\* The outcome of generate_diverse_recommendations as a function of its
\* arguments alone.
DiverseOutcome(profile, catalog, rated, top_n, diversity_factor) ==
    LET pool == generate_recommendations(profile, catalog, rated, 50)
    IN  IF pool = <<>> THEN Returned(<<>>)
        ELSE Reranked(<<pool[1]>>, SubSeq(pool, 2, Len(pool)), top_n, diversity_factor)

\* C23: no step of generate_recommendations or of
\* generate_diverse_recommendations changes the caller's user profile, catalog
\* or exclusion set, and the outcome of every call, whatever calls came before
\* it, is the one its own arguments determine.
C23_NoSideEffect ==
    [][/\ user_profile' = user_profile
       /\ fuzzy_movies_df' = fuzzy_movies_df
       /\ user_rated_movies' = user_rated_movies
       /\ (pc' = "done" /\ call'.op = "generate_recommendations")
              => result' = Returned(generate_recommendations(
                               user_profile, fuzzy_movies_df, user_rated_movies, call'.top_n))
       /\ (pc' = "done" /\ call'.op = "generate_diverse_recommendations")
              => result' = DiverseOutcome(user_profile, fuzzy_movies_df, user_rated_movies,
                                          call'.top_n, call'.diversity_factor)]_vars

\* A call of generate_diverse_recommendations with diversity_factor 1.0, on a
\* catalog with an excluded movie, has returned the two other movies.
C23_Witness ==
    /\ Done("generate_diverse_recommendations")
    /\ call.diversity_factor = 10
    /\ user_rated_movies # {}
    /\ \E i \in 1..Len(fuzzy_movies_df) : fuzzy_movies_df[i].movie_id \in user_rated_movies
    /\ result.status = "returned"
    /\ Len(result.value) = 2

\* No scored genre is positive both in the user profile and in the catalog
\* row (so for every row when the user profile is all-zero).
NoOverlap(row) ==
    \A g \in ScoredGenreSet :
        ~(Get(user_profile.profile, g) > 0 /\ Get(MovieProfile(row), g) > 0)

\* C24: generate_recommendations does not fail on a non-excluded movie that
\* has no genre overlap with the user profile: the movie is scored 0, it is
\* in the returned list when top_n keeps every candidate, and wherever it is
\* returned it comes after every movie of positive score.
C24_ZeroScoreCandidate ==
    Done("generate_recommendations")
        => /\ result.status = "returned"
           /\ \A i \in 1..Len(fuzzy_movies_df) :
                  (/\ fuzzy_movies_df[i].movie_id \notin user_rated_movies
                   /\ NoOverlap(fuzzy_movies_df[i]))
                      => /\ call.top_n >= NumUnrated
                                => \E k \in 1..Len(result.value) :
                                       result.value[k].movie_id = fuzzy_movies_df[i].movie_id
                         /\ \A k \in 1..Len(result.value) :
                                result.value[k].movie_id = fuzzy_movies_df[i].movie_id
                                    => /\ result.value[k].similarity_score = 0
                                       /\ \A j \in 1..Len(result.value) :
                                              result.value[j].similarity_score > 0 => j < k

\* A returned list that holds a movie of positive score and, after it, a
\* movie that has genres but none in common with the user profile.
C24_Witness ==
    /\ Done("generate_recommendations")
    /\ \E k \in 1..Len(result.value) : result.value[k].similarity_score > 0
    /\ \E k \in 1..Len(result.value) :
           /\ NoOverlap(fuzzy_movies_df[CatalogIndex(result.value[k].movie_id)])
           /\ result.value[k].genres # <<>>
           /\ result.value[k].similarity_score = 0
           /\ k > 1

\* Strengths given to the sentinel genre: none, 1.0.
UnknownLevels == {0, 10}

\* A profile with its 'unknown' entry set to x.
WithUnknown(profile, x) ==
    [g \in DOMAIN profile \cup {"unknown"} |-> IF g = "unknown" THEN x ELSE profile[g]]

\* The catalog with the 'unknown' column of every row set to y.
CatalogWithUnknown(y) ==
    [i \in 1..Len(fuzzy_movies_df) |-> [fuzzy_movies_df[i] EXCEPT !.unknown = y]]

\* C25: the sentinel genre 'unknown' never influences a score: whatever the
\* 'unknown' entries of the two profiles are set to, fuzzy_jaccard,
\* fuzzy_cosine, fuzzy_dice and hybrid_similarity give the value of the call,
\* and whatever the 'unknown' entry of the user profile and the 'unknown'
\* column of the catalog are set to, generate_recommendations returns the list
\* of the call.
C25_SentinelIgnored ==
    \A x, y \in UnknownLevels :
        /\ Done("fuzzy_jaccard")
               => result.value = fuzzy_jaccard(WithUnknown(CalledUser, x),
                                               WithUnknown(CalledMovie, y))
        /\ Done("fuzzy_cosine")
               => result.value = fuzzy_cosine(WithUnknown(CalledUser, x),
                                              WithUnknown(CalledMovie, y))
        /\ Done("fuzzy_dice")
               => result.value = fuzzy_dice(WithUnknown(CalledUser, x),
                                            WithUnknown(CalledMovie, y))
        /\ Done("hybrid_similarity")
               => result = hybrid_similarity(WithUnknown(CalledUser, x),
                                             WithUnknown(CalledMovie, y), call.weights)
        /\ Done("generate_recommendations")
               => result = Returned(generate_recommendations(
                               [user_profile EXCEPT !.profile = WithUnknown(@, x)],
                               CatalogWithUnknown(y), user_rated_movies, call.top_n))

\* generate_recommendations has returned a movie of positive score for a user
\* profile with a positive 'unknown' entry, from a catalog with a row of
\* positive 'unknown' strength.
C25_Witness ==
    /\ Done("generate_recommendations")
    /\ Get(user_profile.profile, "unknown") > 0
    /\ \E i \in 1..Len(fuzzy_movies_df) :
           /\ fuzzy_movies_df[i].unknown > 0
           /\ fuzzy_movies_df[i].movie_id \notin user_rated_movies
    /\ \E k \in 1..Len(result.value) : result.value[k].similarity_score > 0

\* Number of occurrences of an item in a list.
Occurrences(item, seq) == Cardinality({k \in 1..Len(seq) : seq[k] = item})

\* C26: throughout generate_diverse_recommendations the selected list and the
\* remaining pool hold, between them, every candidate of the ranked pool
\* exactly once and unmodified (so they are disjoint), and a returned list
\* holds candidates of the ranked pool only, none twice, each with its
\* movie_id, title, similarity_score and genres.
C26_PoolPartition ==
    call.op = "generate_diverse_recommendations"
        => /\ Len(diverse_recommendations) + Len(remaining_recommendations)
                  = Len(recommendations)
           /\ \A p \in 1..Len(recommendations) :
                  Occurrences(recommendations[p],
                              diverse_recommendations \o remaining_recommendations) = 1
           /\ \A k \in 1..Len(diverse_recommendations) :
                  Occurrences(diverse_recommendations[k], remaining_recommendations) = 0
           /\ (pc = "done" /\ result.status = "returned")
                  => \A k \in 1..Len(result.value) :
                         /\ Occurrences(result.value[k], recommendations) = 1
                         /\ Occurrences(result.value[k], result.value) = 1

\* The loop has selected, out of the ranked order, two of three candidates.
C26_Witness ==
    /\ pc = "mmr"
    /\ Len(diverse_recommendations) = 2
    /\ Len(remaining_recommendations) = 1
    /\ diverse_recommendations # SubSeq(recommendations, 1, 2)

\* Number of iterations of the while loop entered so far in the call: one
\* per candidate selected after the seed, and one more when the call ended
\* inside an iteration (break or exception) instead of at the loop condition.
Iterations ==
    IF recommendations = <<>> THEN 0
    ELSE Len(diverse_recommendations) - 1
             + (IF pc = "done" /\ LoopCondition THEN 1 ELSE 0)

\* C27: every iteration of the MMR loop either moves exactly one candidate out
\* of the remaining pool or ends the call, the loop ends the call when its
\* condition is false, and a call runs at most min(top_n, pool size) - 1
\* iterations (none when that number is not positive).
C27_BoundedIterations ==
    [][/\ (pc = "mmr" /\ LoopCondition)
              => \/ pc' = "done"
                 \/ /\ pc' = "mmr"
                    /\ Len(remaining_recommendations') = Len(remaining_recommendations) - 1
                    /\ Len(diverse_recommendations') = Len(diverse_recommendations) + 1
       /\ (pc = "mmr" /\ ~LoopCondition) => pc' = "done"
       /\ call'.op = "generate_diverse_recommendations"
              => Iterations' <= Max(0, Min(call'.top_n, Len(recommendations')) - 1)]_vars

\* A call that ran two iterations, as many as min(top_n, pool size) - 1.
C27_Witness ==
    /\ Done("generate_diverse_recommendations")
    /\ Iterations = 2
    /\ Iterations = Min(call.top_n, Len(recommendations)) - 1

\* C28: with diversity_factor = 0 (every similarity score is >= 0), a call of
\* generate_diverse_recommendations with top_n = N, for N from 0 to the size
\* of the candidate pool, returns the ordered list generate_recommendations
\* returns for top_n = N.
C28_RelevanceOnly ==
    (/\ Done("generate_diverse_recommendations")
     /\ call.diversity_factor = 0
     /\ call.top_n >= 0
     /\ call.top_n <= Len(recommendations))
        => result = Returned(generate_recommendations(
                        user_profile, fuzzy_movies_df, user_rated_movies, call.top_n))

\* C29: binary_to_fuzzy gives every genre that is related to a present genre
\* and is not itself present a non-zero membership, and every present genre
\* a membership in [0.7, 1.0].
C29_RelatedGenresAdded ==
    Done("binary_to_fuzzy") =>
        \A genre \in ScoredGenreSet :
            call.genre_vector[genre] =>
                /\ result.value[genre] >= (7 * Scale) \div 10
                /\ result.value[genre] <= Scale
                /\ \A related_genre \in DOMAIN genre_relationships[genre] :
                       ~call.genre_vector[related_genre]
                           => result.value[related_genre] > 0

\* The ratings of the called user paired with the catalog rows of their
\* movies.
RatedPairs ==
    {p \in (1..Len(call.ratings_df)) \X (1..Len(fuzzy_movies_df)) :
        /\ call.ratings_df[p[1]].user_id = call.user_id
        /\ call.ratings_df[p[1]].movie_id = fuzzy_movies_df[p[2]].movie_id}

RECURSIVE PairSum(_, _)
\* Sum of term[p] over the pairs of a set.
PairSum(pairs, term) ==
    IF pairs = {} THEN 0
    ELSE LET p == CHOOSE q \in pairs : TRUE
         IN  term[p] + PairSum(pairs \ {p}, term)

\* Four times the sum of the weights (rating - 1) / 4 of the rated movies.
SumOfWeights ==
    PairSum(RatedPairs, [p \in RatedPairs |-> call.ratings_df[p[1]].rating - 1])

\* Forty times the sum of membership * weight of the rated movies.
SumOfWeighted(genre) ==
    PairSum(RatedPairs, [p \in RatedPairs |->
        fuzzy_movies_df[p[2]][genre] * (call.ratings_df[p[1]].rating - 1)])

\* C30: for a user with at least one rating, create_user_profile returns a
\* profile with an entry for every genre but the sentinel, each in [0, 1];
\* each entry is the average of the rated movies' memberships weighted by
\* (rating - 1) / 4 (to the precision 1/(10 * Scale) of the entries), and
\* the profile is all-zero when every rating of the user is 1.
C30_WeightedAverageProfile ==
    (/\ Done("create_user_profile")
     /\ \E i \in 1..Len(call.ratings_df) : call.ratings_df[i].user_id = call.user_id)
        => /\ result.status = "returned"
           /\ result.value # None
           /\ DOMAIN result.value.profile = ScoredGenreSet
           /\ \A genre \in ScoredGenreSet :
                  LET entry == result.value.profile[genre]
                  IN  /\ entry >= 0
                      /\ entry <= 10 * Scale
                      /\ SumOfWeights > 0 =>
                             /\ entry * SumOfWeights <= SumOfWeighted(genre) * Scale
                             /\ SumOfWeighted(genre) * Scale < (entry + 1) * SumOfWeights
                      /\ (\A i \in 1..Len(call.ratings_df) :
                              call.ratings_df[i].user_id = call.user_id
                                  => call.ratings_df[i].rating = 1)
                             => entry = 0

\* The user rated two catalog movies of different Drama memberships, one 3
\* and one 5, and the Drama entry lies strictly between the two memberships.
C30_Witness ==
    /\ Done("create_user_profile")
    /\ result.status = "returned"
    /\ result.value # None
    /\ \E p, q \in RatedPairs :
           /\ call.ratings_df[p[1]].rating = 3
           /\ call.ratings_df[q[1]].rating = 5
           /\ fuzzy_movies_df[p[2]].Drama < fuzzy_movies_df[q[2]].Drama
           /\ result.value.profile.Drama > fuzzy_movies_df[p[2]].Drama * Scale
           /\ result.value.profile.Drama < fuzzy_movies_df[q[2]].Drama * Scale

====
